---- MODULE Spec2Model ----
(***************************************************************************)
(* TextToVisual AI Suite: the Express gateway (rate limiter, POST          *)
(* /generate, POST /generate-diagram, GET /) and the React client's        *)
(* orchestration (handleManifest and the handlers around it).              *)
(*                                                                         *)
(* A text is a sequence of chunks.  Every character the code inspects      *)
(* (space, newline, backtick, the letters of "mermaid") is a chunk of its  *)
(* own; a fixed literal the code only copies may be one chunk.             *)
(***************************************************************************)
EXTENDS Integers, Sequences, FiniteSets, TLC

\* ------------------------------------------------------------------ bounds
MaxInFlight == 1    \* requests the server holds at the same time
MaxArrivals == 1    \* arrivals per caller and window explored by Spec
MaxExcess   == 2    \* arrivals beyond max explored by SpecLimiter
MaxPieces   == 4    \* pieces of a text-model answer explored by SpecDiagram

\* ------------------------------------------------------- JavaScript values
Undefined == [type |-> "undefined"]
Str(s)    == [type |-> "string", chars |-> s]

\* !v for the values a JSON body or the environment can carry here
Falsy(v) == v.type = "undefined" \/ (v.type = "string" /\ v.chars = <<>>)

\* a || b
OrElse(a, b) == IF Falsy(a) THEN b ELSE a

NL == "\n"
SP == " "
BT == "BACKTICK"   \* the backquote character

IsSpace(c) == c \in {SP, NL}

RECURSIVE TrimStart(_)
TrimStart(s) ==
    IF s # <<>> /\ IsSpace(Head(s)) THEN TrimStart(Tail(s)) ELSE s

RECURSIVE TrimEnd(_)
TrimEnd(s) ==
    IF s # <<>> /\ IsSpace(s[Len(s)]) THEN TrimEnd(SubSeq(s, 1, Len(s) - 1)) ELSE s

\* String.prototype.trim
Trim(s) == TrimEnd(TrimStart(s))

StartsWith(s, p) == Len(s) >= Len(p) /\ SubSeq(s, 1, Len(p)) = p
EndsWith(s, p)   == Len(s) >= Len(p) /\ SubSeq(s, Len(s) - Len(p) + 1, Len(s)) = p
Drop(s, n)       == SubSeq(s, n + 1, Len(s))

FENCE   == <<BT, BT, BT>>
MERMAID == <<"m", "e", "r", "m", "a", "i", "d">>

\* s.replace(/^<p>\n?/, '')
StripPrefixNL(s, p) ==
    IF StartsWith(s, p)
    THEN LET r == Drop(s, Len(p))
         IN  IF r # <<>> /\ Head(r) = NL THEN Tail(r) ELSE r
    ELSE s

\* s.replace(/\n?FENCE$/, '')
StripClosingFence(s) ==
    IF EndsWith(s, FENCE)
    THEN LET r == SubSeq(s, 1, Len(s) - 3)
         IN  IF r # <<>> /\ r[Len(r)] = NL THEN SubSeq(r, 1, Len(r) - 1) ELSE r
    ELSE s

\* the three chained replace calls of getMermaidCode
StripFences(text) ==
    StripClosingFence(StripPrefixNL(StripPrefixNL(text, FENCE \o MERMAID), FENCE))

\* ---------------------------------------------------------------- server
Callers   == {"c1", "c2"}            \* request addresses (req.ip)
Slots     == 1..MaxInFlight
Endpoints == {"GET /", "POST /generate", "POST /generate-diagram"}

max == 100                           \* rateLimit({ max })

LimitMessage ==
    [error |-> "Too many requests from this IP, please try again after 15 minutes"]

REALISTIC == <<"realistic">>
QUALITY   == <<", high resolution, ultra detailed, cinematic lighting">>
ERROR_GRAPH ==
    <<"graph TD", NL, "A[Error] --> B[Diagram Generation Failed]">>

VARIABLES
    HUGGINGFACE_API_KEY,   \* process.env.HUGGINGFACE_API_KEY, read once at start
    hits,                  \* the limiter's store: caller -> hits in its window
    served,                \* caller -> requests of its window that reached a route
    reqs                   \* slot -> the request handled there and its trace

serverVars == <<HUGGINGFACE_API_KEY, hits, served, reqs>>

VARIABLES
    prompt, style,         \* useState: the input box and the style selector
    loading, error,        \* useState
    image, enhancedPrompt, mermaidCode,   \* useState: the displayed result
    isSaved,               \* useState
    manifests              \* the handleManifest invocations and their two calls

VARIABLES
    activeTab,             \* useState: 'manifest' or 'history'
    saving,                \* useState
    isModalOpen,           \* useState: the archivist modal
    archivistName,         \* useState
    historyItems,          \* useState: the listed records
    historyLoading,        \* useState
    store,                 \* the documents of the "visuals" collection
    clock,                 \* the store's time, read by serverTimestamp()
    saves,                 \* the addDoc calls of handleSaveToCloud
    deletes,               \* the deleteDoc calls of handleDelete
    fetches,               \* getDocs calls of fetchHistory not yet settled
    alerts,                \* alert() dialogs raised so far
    timers                 \* pending setTimeout(() => setIsSaved(false), 3000)

fetchVars == <<historyLoading, fetches>>

vaultVars == <<activeTab, saving, isModalOpen, archivistName, historyItems,
               store, clock, saves, deletes, alerts, timers>>

clientVars == <<prompt, style, loading, error, image, enhancedPrompt,
                mermaidCode, isSaved, manifests, vaultVars, fetchVars>>

vars == <<serverVars, clientVars>>

NoResp == [kind |-> "none"]

\* the outcomes of one awaited upstream call
TextFailure   == [ok |-> FALSE, text |-> <<>>]
TextAnswer(t) == [ok |-> TRUE, text |-> t]
NoFetch       == [kind |-> "none", status |-> 0, readable |-> FALSE,
                  bytes |-> "none", json |-> <<>>]
FetchThrows   == [kind |-> "throw", status |-> 0, readable |-> FALSE,
                  bytes |-> "none", json |-> <<>>]
FetchResponse(status, readable, bytes, json) ==
    [kind |-> "response", status |-> status, readable |-> readable,
     bytes |-> bytes, json |-> json]


FreeReq ==
    [pc |-> "free", caller |-> "none", ep |-> "none",
     body |-> [prompt |-> Undefined, style |-> Undefined],
     hit |-> 0, textCalls |-> 0, imageCalls |-> 0,
     textInput |-> <<>>, textFailed |-> FALSE, textOut |-> <<>>,
     imageInput |-> <<>>, imageOutcome |-> NoFetch, image |-> <<>>,
     status |-> 0, resp |-> NoResp]

\* res.status(code).json(body) / res.send(body): the response leaves, the
\* handler returns
Respond(r, code, body) == [r EXCEPT !.pc = "done", !.status = code, !.resp = body]

\* the instruction template of getEnhancedPrompt
EnhanceTemplate(userPrompt, styleTag) ==
    <<"Improve this text prompt for AI image generation. Incorporate the style: ">>
        \o styleTag \o <<". Return ONLY the improved prompt text. User Prompt: ">>
        \o userPrompt

\* the instruction template of getMermaidCode
MermaidTemplate(userPrompt) ==
    <<"Create a Mermaid.js diagram for: ">> \o userPrompt
        \o <<". Format: flowchart (graph TD).">>

\* mutant: the fallback forgets the style tag
FallbackPrompt_NoStyle(userPrompt, styleTag) == userPrompt \o QUALITY

\* the catch branch of getEnhancedPrompt
FallbackPrompt(userPrompt, styleTag) ==
    userPrompt \o <<",", SP>> \o styleTag \o QUALITY

\* getEnhancedPrompt once generateContent has settled with outcome o
getEnhancedPrompt(userPrompt, styleTag, o) ==
    IF o.ok THEN Trim(o.text) ELSE FallbackPrompt(userPrompt, styleTag)

\* mutant: the fallback graph quotes the prompt
getMermaidCode_PromptInFallback(userPrompt, o) ==
    IF o.ok THEN StripFences(Trim(o.text))
    ELSE <<"graph TD", NL, "A[Error] --> B[">> \o userPrompt \o <<"]">>

\* getMermaidCode once generateContent has settled with outcome o
getMermaidCode(userPrompt, o) ==
    IF o.ok THEN StripFences(Trim(o.text)) ELSE ERROR_GRAPH

\* app.get('/')
Root(r) == Respond(r, 200, [text |-> "TextToVisual AI Suite is running!"])

\* mutant: the credential is not checked before the enhancement starts
Generate_NoKeyCheck(r) ==
    IF Falsy(r.body.prompt)
    THEN Respond(r, 400, [error |-> "Prompt is required"])
    ELSE [r EXCEPT !.pc = "text", !.textCalls = @ + 1,
                   !.textInput = EnhanceTemplate(r.body.prompt.chars,
                                     OrElse(r.body.style, Str(REALISTIC)).chars)]

\* mutant: the credential is checked before the prompt
Generate_KeyFirst(r) ==
    IF Falsy(HUGGINGFACE_API_KEY)
    THEN Respond(r, 500, [error |-> "HF Key missing"])
    ELSE IF Falsy(r.body.prompt)
    THEN Respond(r, 400, [error |-> "Prompt is required"])
    ELSE [r EXCEPT !.pc = "text", !.textCalls = @ + 1,
                   !.textInput = EnhanceTemplate(r.body.prompt.chars,
                                     OrElse(r.body.style, Str(REALISTIC)).chars)]

\* app.post('/generate') up to its first await
Generate(r) ==
    IF Falsy(r.body.prompt)
    THEN Respond(r, 400, [error |-> "Prompt is required"])
    ELSE IF Falsy(HUGGINGFACE_API_KEY)
    THEN Respond(r, 500, [error |-> "HF Key missing"])
    ELSE [r EXCEPT !.pc = "text", !.textCalls = @ + 1,
                   !.textInput = EnhanceTemplate(r.body.prompt.chars,
                                     OrElse(r.body.style, Str(REALISTIC)).chars)]

\* app.post('/generate-diagram') up to its first await
GenerateDiagram(r) ==
    IF Falsy(r.body.prompt)
    THEN Respond(r, 400, [error |-> "Prompt is required"])
    ELSE [r EXCEPT !.pc = "text", !.textCalls = @ + 1,
                   !.textInput = MermaidTemplate(r.body.prompt.chars)]

\* the route the request is dispatched to
Route(r) ==
    CASE r.ep = "GET /"                  -> Root(r)
      [] r.ep = "POST /generate"         -> Generate(r)
      [] r.ep = "POST /generate-diagram" -> GenerateDiagram(r)

\* mutant: the limiter refuses the max-th request already
Limiter_OffByOne(r, hit) ==
    IF hit >= max
    THEN Respond([r EXCEPT !.hit = hit], 429, LimitMessage)
    ELSE Route([r EXCEPT !.hit = hit])

\* app.use(limiter): every request of every route is counted under its
\* caller's address; beyond max hits the limiter answers itself
Limiter(r, hit) ==
    IF hit > max
    THEN Respond([r EXCEPT !.hit = hit], 429, LimitMessage)
    ELSE Route([r EXCEPT !.hit = hit])

\* a request of caller c arrives and runs up to its first await
Arrive(s, c, ep, body) ==
    /\ reqs[s].pc \in {"free", "done"}
    /\ hits' = [hits EXCEPT ![c] = @ + 1]
    /\ LET r == Limiter([FreeReq EXCEPT !.caller = c, !.ep = ep, !.body = body],
                        hits[c] + 1)
       IN  /\ reqs' = [reqs EXCEPT ![s] = r]
           /\ served' = IF r.resp = LimitMessage THEN served
                         ELSE [served EXCEPT ![c] = @ + 1]
    /\ UNCHANGED <<HUGGINGFACE_API_KEY, clientVars>>

\* windowMs has elapsed for caller c: its count starts again
WindowExpires(c) ==
    /\ hits[c] > 0
    /\ hits' = [hits EXCEPT ![c] = 0]
    /\ served' = [served EXCEPT ![c] = 0]
    /\ UNCHANGED <<HUGGINGFACE_API_KEY, reqs, clientVars>>

\* mutant: the image call is given the raw prompt
IssueImageCall_RawPrompt(r, enhanced) ==
    [r EXCEPT !.pc = "image", !.textOut = enhanced,
              !.imageCalls = @ + 1, !.imageInput = r.body.prompt.chars]

\* the fetch(MODEL_URL, ...) of app.post('/generate')
IssueImageCall(r, enhanced) ==
    [r EXCEPT !.pc = "image", !.textOut = enhanced,
              !.imageCalls = @ + 1, !.imageInput = enhanced]

\* mutant: a failed enhancement call is issued once more
EnhanceReturns_Retry(s, o) ==
    /\ reqs[s].pc = "text"
    /\ reqs[s].ep = "POST /generate"
    /\ LET r == reqs[s]
           enhanced ==
               getEnhancedPrompt(r.body.prompt.chars,
                                 OrElse(r.body.style, Str(REALISTIC)).chars, o)
       IN  reqs' = [reqs EXCEPT ![s] =
                      IF ~o.ok /\ r.textCalls < 2
                      THEN [r EXCEPT !.textCalls = @ + 1]
                      ELSE IssueImageCall([r EXCEPT !.textFailed = ~o.ok], enhanced)]
    /\ UNCHANGED <<HUGGINGFACE_API_KEY, hits, served, clientVars>>

\* generateContent settles for a /generate request: the enhancement ends and
\* the image call is issued
EnhanceReturns(s, o) ==
    /\ reqs[s].pc = "text"
    /\ reqs[s].ep = "POST /generate"
    /\ LET r == reqs[s]
           enhanced ==
               getEnhancedPrompt(r.body.prompt.chars,
                                 OrElse(r.body.style, Str(REALISTIC)).chars, o)
       IN  reqs' = [reqs EXCEPT ![s] =
                      IssueImageCall([r EXCEPT !.textFailed = ~o.ok], enhanced)]
    /\ UNCHANGED <<HUGGINGFACE_API_KEY, hits, served, clientVars>>

\* mutant: a failed diagram call is passed on as a 500
DiagramReturns_Propagates(s, o) ==
    /\ reqs[s].pc = "text"
    /\ reqs[s].ep = "POST /generate-diagram"
    /\ LET r == reqs[s]
           code == getMermaidCode(r.body.prompt.chars, o)
       IN  reqs' = [reqs EXCEPT ![s] =
                      IF o.ok
                      THEN Respond([r EXCEPT !.textOut = code], 200, [mermaidCode |-> code])
                      ELSE Respond([r EXCEPT !.textFailed = TRUE], 500,
                                   [error |-> "Failed to generate diagram"])]
    /\ UNCHANGED <<HUGGINGFACE_API_KEY, hits, served, clientVars>>

\* generateContent settles for a /generate-diagram request
DiagramReturns(s, o) ==
    /\ reqs[s].pc = "text"
    /\ reqs[s].ep = "POST /generate-diagram"
    /\ LET r == reqs[s]
           code == getMermaidCode(r.body.prompt.chars, o)
       IN  reqs' = [reqs EXCEPT ![s] =
                      Respond([r EXCEPT !.textFailed = ~o.ok, !.textOut = code],
                              200, [mermaidCode |-> code])]
    /\ UNCHANGED <<HUGGINGFACE_API_KEY, hits, served, clientVars>>

\* hfResponse.ok
Ok(status) == status >= 200 /\ status <= 299

\* Buffer.from(buffer).toString('base64') behind the data-URI prefix
DataURI(buffer) == <<"data:image/jpeg;base64,", <<"base64", buffer>> >>

\* await hfResponse.json().catch(() => ({}))
ErrorData(o) == IF o.readable THEN o.json ELSE <<>>

\* mutant: every upstream failure is answered 500
ImageAnswer_Always500(r, o) ==
    IF o.kind = "response" /\ Ok(o.status) /\ o.readable
    THEN LET buffer == <<o.bytes, "generated from", r.imageInput>>
         IN  Respond([r EXCEPT !.image = buffer], 200,
                     [enhancedPrompt |-> r.textOut, image |-> DataURI(buffer)])
    ELSE Respond(r, 500, [error |-> "Internal Server Error"])

\* what app.post('/generate') answers once the image call has settled with o
ImageAnswer(r, o) ==
    CASE o.kind = "throw" ->
             Respond(r, 500, [error |-> "Internal Server Error"])
      [] o.kind = "response" /\ ~Ok(o.status) ->
             Respond(r, o.status, [error |-> "HF API failed", details |-> ErrorData(o)])
      [] o.kind = "response" /\ Ok(o.status) /\ ~o.readable ->
             Respond(r, 500, [error |-> "Internal Server Error"])
      [] o.kind = "response" /\ Ok(o.status) /\ o.readable ->
             LET buffer == <<o.bytes, "generated from", r.imageInput>>
             IN  Respond([r EXCEPT !.image = buffer], 200,
                         [enhancedPrompt |-> r.textOut, image |-> DataURI(buffer)])

\* the image call of a /generate request settles
ImageReturns(s, o) ==
    /\ reqs[s].pc = "image"
    /\ reqs' = [reqs EXCEPT ![s] = ImageAnswer([reqs[s] EXCEPT !.imageOutcome = o], o)]
    /\ UNCHANGED <<HUGGINGFACE_API_KEY, hits, served, clientVars>>

\* ------------------------------------------------- inputs and environment
Prompts == {Undefined, Str(<<>>), Str(<<SP>>), Str(<<"p">>)}
Styles  == {Undefined, Str(<<>>), Str(<<"anime">>)}
Bodies  == [prompt : Prompts, style : Styles]
Keys    == {Undefined, Str(<<"hf_key">>)}

EnhanceOutcomes == {TextFailure, TextAnswer(<<SP, "vivid", SP, "p", NL>>)}
DiagramOutcomes ==
    {TextFailure,
     TextAnswer(<<"graph TD", NL, "A-->B", NL>>),
     TextAnswer(FENCE \o MERMAID \o <<NL, "graph TD", NL, "A-->B", NL>> \o FENCE)}
ImageOutcomes ==
    {FetchThrows,
     FetchResponse(200, TRUE, "jpeg", <<>>),
     FetchResponse(200, FALSE, "none", <<>>),
     FetchResponse(503, TRUE, "none", [error |-> "Model is loading"]),
     FetchResponse(401, FALSE, "none", <<>>)}

ServerInit ==
    /\ HUGGINGFACE_API_KEY \in Keys
    /\ hits = [c \in Callers |-> 0]
    /\ served = [c \in Callers |-> 0]
    /\ reqs = [s \in Slots |-> FreeReq]

\* answers of the text model built from up to MaxPieces pieces: fences, the
\* word mermaid, newlines, blanks, single backquotes and diagram text
Pieces == {FENCE, MERMAID, <<NL>>, <<SP>>, <<BT>>, <<"graph TD">>}

RECURSIVE PieceTexts(_)
PieceTexts(n) ==
    IF n = 0 THEN {<<>>}
    ELSE LET shorter == PieceTexts(n - 1)
         IN  shorter \cup {t \o q : t \in shorter, q \in Pieces}

\* ---------------------------------------------------------------- client
MaxActions == 2     \* handleManifest invocations explored by SpecClient
MaxFetches == 1     \* getDocs calls in flight at the same time

STYLES == <<"realistic", "anime", "cinematic", "3d render">>

Null      == [kind |-> "null", action |-> 0]      \* useState(null)
EmptyText == [kind |-> "empty", action |-> 0]     \* useState('')

\* the fields of the two response bodies of manifest action a
ImageOf(a)          == [kind |-> "image", action |-> a]
EnhancedPromptOf(a) == [kind |-> "enhancedPrompt", action |-> a]
MermaidCodeOf(a)    == [kind |-> "mermaidCode", action |-> a]

ClientPrompts == {<<>>, <<SP>>, <<"p">>, <<SP, "q">>}
ClientStyles  == {STYLES[1], STYLES[2]}
Settlements   == {"ok", "rejected"}     \* axios.post resolves or rejects

ClientInit ==
    /\ prompt = <<>>
    /\ style = STYLES[1]
    /\ loading = FALSE
    /\ error = "null"
    /\ image = Null
    /\ enhancedPrompt = EmptyText
    /\ mermaidCode = EmptyText
    /\ isSaved = FALSE
    /\ manifests = <<>>
    /\ activeTab = "manifest"
    /\ saving = FALSE
    /\ isModalOpen = FALSE
    /\ archivistName = <<>>
    /\ historyItems = <<>>
    /\ historyLoading = FALSE
    /\ saves = <<>>
    /\ deletes = <<>>
    /\ fetches = 0
    /\ alerts = 0
    /\ timers = 0

\* onChange of the prompt box
setPrompt(p) ==
    /\ prompt' = p
    /\ UNCHANGED <<style, loading, error, image, enhancedPrompt, mermaidCode,
                   isSaved, manifests, serverVars, vaultVars, fetchVars>>

\* onClick of a style entry
setStyle(st) ==
    /\ style' = st
    /\ UNCHANGED <<prompt, loading, error, image, enhancedPrompt, mermaidCode,
                   isSaved, manifests, serverVars, vaultVars, fetchVars>>

\* the two axios.post calls handed to Promise.all
StartCalls(p, st) ==
    [prompt |-> p, style |-> st, generate |-> "pending", diagram |-> "pending",
     pc |-> "await", order |-> <<>>]

\* mutant: the prompt is tested without trim
handleManifest_NoTrim ==
    IF prompt = <<>>
    THEN /\ error' = "Please enter a concept to manifest."
         /\ UNCHANGED <<prompt, style, loading, image, enhancedPrompt, mermaidCode,
                        isSaved, manifests, serverVars, vaultVars, fetchVars>>
    ELSE /\ Len(manifests) < MaxActions
         /\ loading' = TRUE
         /\ error' = "null"
         /\ image' = Null
         /\ mermaidCode' = EmptyText
         /\ manifests' = Append(manifests, StartCalls(prompt, style))
         /\ UNCHANGED <<prompt, style, enhancedPrompt, isSaved, serverVars, vaultVars,
                        fetchVars>>

\* handleManifest up to its await
handleManifest ==
    IF Trim(prompt) = <<>>
    THEN /\ error' = "Please enter a concept to manifest."
         /\ UNCHANGED <<prompt, style, loading, image, enhancedPrompt, mermaidCode,
                        isSaved, manifests, serverVars, vaultVars, fetchVars>>
    ELSE /\ Len(manifests) < MaxActions
         /\ loading' = TRUE
         /\ error' = "null"
         /\ image' = Null
         /\ mermaidCode' = EmptyText
         /\ manifests' = Append(manifests, StartCalls(prompt, style))
         /\ UNCHANGED <<prompt, style, enhancedPrompt, isSaved, serverVars, vaultVars,
                        fetchVars>>

\* mutant: the manifest button is not disabled while loading
ManifestButton_AlwaysEnabled == handleManifest

\* the manifest button: onClick={handleManifest} disabled={loading}
ManifestButton == ~loading /\ handleManifest

\* fetchHistory up to its await
fetchHistory ==
    /\ fetches < MaxFetches
    /\ historyLoading' = TRUE
    /\ fetches' = fetches + 1

\* the useEffect on [mermaidCode, activeTab], for a step that leaves the tab
\* alone: it calls fetchHistory when mermaidCode changed on the history tab
MermaidEffect(changed) ==
    IF changed /\ activeTab = "history" THEN fetchHistory ELSE UNCHANGED fetchVars

\* mutant: the results are written as soon as one call has answered
PromiseAllFulfilled_Either(m) == m.generate = "ok" \/ m.diagram = "ok"

\* Promise.all([generate, diagram]) is fulfilled
PromiseAllFulfilled(m) == m.generate = "ok" /\ m.diagram = "ok"

\* Promise.all([generate, diagram]) is rejected
PromiseAllRejected(m) == m.generate = "rejected" \/ m.diagram = "rejected"

\* mutant: after a rejection the answer of the other call is still displayed
Resume_PartialWrite(a, m) ==
    /\ manifests' = [manifests EXCEPT ![a] =
                       IF m.pc = "await" /\ (PromiseAllFulfilled(m) \/ PromiseAllRejected(m))
                       THEN [m EXCEPT !.pc = "done"] ELSE m]
    /\ IF m.pc = "await" /\ PromiseAllFulfilled(m)
       THEN /\ image' = ImageOf(a)
            /\ enhancedPrompt' = EnhancedPromptOf(a)
            /\ mermaidCode' = MermaidCodeOf(a)
            /\ loading' = FALSE
            /\ isSaved' = FALSE
            /\ UNCHANGED error
       ELSE IF m.pc = "await" /\ PromiseAllRejected(m)
       THEN /\ error' = "Neural manifestation partially failed. Check your connection."
            /\ loading' = FALSE
            /\ isSaved' = FALSE
            /\ image' = IF m.generate = "ok" THEN ImageOf(a) ELSE image
            /\ enhancedPrompt' = IF m.generate = "ok" THEN EnhancedPromptOf(a)
                                  ELSE enhancedPrompt
            /\ mermaidCode' = IF m.diagram = "ok" THEN MermaidCodeOf(a) ELSE mermaidCode
       ELSE UNCHANGED <<error, loading, isSaved, image, enhancedPrompt, mermaidCode>>
    /\ MermaidEffect(m.pc = "await" /\ PromiseAllFulfilled(m))
    /\ UNCHANGED <<prompt, style, serverVars, vaultVars>>

\* mutant: setLoading(false) and setIsSaved(false) sit at the end of the try
\* block and are skipped when Promise.all rejects
Resume_NoFinally(a, m) ==
    /\ manifests' = [manifests EXCEPT ![a] =
                       IF m.pc = "await" /\ (PromiseAllFulfilled(m) \/ PromiseAllRejected(m))
                       THEN [m EXCEPT !.pc = "done"] ELSE m]
    /\ IF m.pc = "await" /\ PromiseAllFulfilled(m)
       THEN /\ image' = ImageOf(a)
            /\ enhancedPrompt' = EnhancedPromptOf(a)
            /\ mermaidCode' = MermaidCodeOf(a)
            /\ loading' = FALSE
            /\ isSaved' = FALSE
            /\ UNCHANGED error
       ELSE IF m.pc = "await" /\ PromiseAllRejected(m)
       THEN /\ error' = "Neural manifestation partially failed. Check your connection."
            /\ UNCHANGED <<loading, isSaved, image, enhancedPrompt, mermaidCode>>
       ELSE UNCHANGED <<error, loading, isSaved, image, enhancedPrompt, mermaidCode>>
    /\ MermaidEffect(m.pc = "await" /\ PromiseAllFulfilled(m))
    /\ UNCHANGED <<prompt, style, serverVars, vaultVars>>

\* one of the two calls of action a has settled: the rest of handleManifest
\* runs as soon as Promise.all settles, and at most once
Resume(a, m) ==
    /\ manifests' = [manifests EXCEPT ![a] =
                       IF m.pc = "await" /\ (PromiseAllFulfilled(m) \/ PromiseAllRejected(m))
                       THEN [m EXCEPT !.pc = "done"] ELSE m]
    /\ IF m.pc = "await" /\ PromiseAllFulfilled(m)
       THEN /\ image' = ImageOf(a)
            /\ enhancedPrompt' = EnhancedPromptOf(a)
            /\ mermaidCode' = MermaidCodeOf(a)
            /\ loading' = FALSE
            /\ isSaved' = FALSE
            /\ UNCHANGED error
       ELSE IF m.pc = "await" /\ PromiseAllRejected(m)
       THEN /\ error' = "Neural manifestation partially failed. Check your connection."
            /\ loading' = FALSE
            /\ isSaved' = FALSE
            /\ UNCHANGED <<image, enhancedPrompt, mermaidCode>>
       ELSE UNCHANGED <<error, loading, isSaved, image, enhancedPrompt, mermaidCode>>
    /\ MermaidEffect(m.pc = "await" /\ PromiseAllFulfilled(m))
    /\ UNCHANGED <<prompt, style, serverVars, vaultVars>>

\* the POST /generate call of action a resolves or rejects
GenerateSettles(a, outcome) ==
    /\ a \in DOMAIN manifests
    /\ manifests[a].generate = "pending"
    /\ Resume(a, [manifests[a] EXCEPT !.generate = outcome,
                                      !.order = Append(@, "generate")])

\* the POST /generate-diagram call of action a resolves or rejects
DiagramSettles(a, outcome) ==
    /\ a \in DOMAIN manifests
    /\ manifests[a].diagram = "pending"
    /\ Resume(a, [manifests[a] EXCEPT !.diagram = outcome,
                                      !.order = Append(@, "diagram")])

\* ------------------------------------------------ client: vault, history
MaxSaves   == 2     \* addDoc calls explored
MaxDeletes == 2     \* deleteDoc calls explored
MaxDocs    == 3     \* records archived before the session of SpecHistory
MaxVaultActions == 1   \* handleManifest invocations explored by SpecVault

ArchivistNames == {<<SP>>, <<"ann">>}

\* a JavaScript truthiness test of a displayed field
Present(v) == v.kind \notin {"null", "empty"}

\* what the manifest tab and the history tab offer to a click: the modal
\* covers the page, the list is hidden while historyLoading
ManifestView == activeTab # "history" /\ ~isModalOpen
HistoryView  == activeTab = "history" /\ ~isModalOpen /\ ~historyLoading

\* mutant: the query orders by ascending creation time
Latest_Earliest(docs) == CHOOSE d \in docs : \A e \in docs : d.createdAt <= e.createdAt

\* the record with the latest createdAt
Latest(docs) == CHOOSE d \in docs : \A e \in docs : e.createdAt <= d.createdAt

\* query(collection(db, "visuals"), orderBy("createdAt", "desc"))
RECURSIVE OrderByDesc(_)
OrderByDesc(docs) ==
    IF docs = {} THEN <<>>
    ELSE <<Latest(docs)>> \o OrderByDesc(docs \ {Latest(docs)})

\* historyItems.filter(item => item.id !== itemId)
FilterOut(items, itemId) == SelectSeq(items, LAMBDA item : item.id # itemId)

\* onClick of a tab, and the useEffect it triggers
TabClick(tab) ==
    /\ ~isModalOpen
    /\ activeTab' = tab
    /\ error' = "null"
    /\ IF tab = "history" /\ activeTab # "history"
       THEN fetchHistory ELSE UNCHANGED fetchVars
    /\ UNCHANGED <<prompt, style, loading, image, enhancedPrompt, mermaidCode,
                   isSaved, manifests, saving, isModalOpen, archivistName,
                   historyItems, store, clock, saves, deletes, alerts, timers,
                   serverVars>>

\* the getDocs call of fetchHistory resolves or rejects
FetchSettles(outcome) ==
    /\ fetches > 0
    /\ fetches' = fetches - 1
    /\ historyLoading' = FALSE
    /\ IF outcome = "ok"
       THEN historyItems' = OrderByDesc(store) /\ UNCHANGED error
       ELSE error' = "Failed to load history." /\ UNCHANGED historyItems
    /\ UNCHANGED <<prompt, style, loading, image, enhancedPrompt, mermaidCode,
                   isSaved, manifests, activeTab, saving, isModalOpen,
                   archivistName, store, clock, saves, deletes, alerts, timers,
                   serverVars>>

\* mutant: restoring a record leaves the enhanced prompt on display as it is
Restore_KeepsEnhancedPrompt(i) ==
    /\ HistoryView
    /\ i \in DOMAIN historyItems
    /\ image' = historyItems[i].image
    /\ mermaidCode' = historyItems[i].mermaidCode
    /\ prompt' = historyItems[i].prompt
    /\ activeTab' = "manifest"
    /\ UNCHANGED <<style, loading, error, isSaved, manifests, saving, isModalOpen,
                   archivistName, historyItems, store, clock, saves, deletes,
                   alerts, timers, fetchVars, serverVars, enhancedPrompt>>

\* onClick of the restore button of the i-th listed record
Restore(i) ==
    /\ HistoryView
    /\ i \in DOMAIN historyItems
    /\ image' = historyItems[i].image
    /\ enhancedPrompt' = historyItems[i].enhancedPrompt
    /\ mermaidCode' = historyItems[i].mermaidCode
    /\ prompt' = historyItems[i].prompt
    /\ activeTab' = "manifest"
    /\ UNCHANGED <<style, loading, error, isSaved, manifests, saving, isModalOpen,
                   archivistName, historyItems, store, clock, saves, deletes,
                   alerts, timers, fetchVars, serverVars>>

\* handleDelete up to its await; confirmed is the answer of window.confirm
handleDelete(itemId, confirmed) ==
    /\ confirmed
    /\ Len(deletes) < MaxDeletes
    /\ deletes' = Append(deletes, [itemId |-> itemId, items |-> historyItems,
                                   confirmed |-> confirmed, state |-> "pending"])
    /\ UNCHANGED <<prompt, style, loading, error, image, enhancedPrompt,
                   mermaidCode, isSaved, manifests, activeTab, saving, isModalOpen,
                   archivistName, historyItems, store, clock, saves, alerts,
                   timers, fetchVars, serverVars>>

\* onClick of the delete button of the i-th listed record
DeleteButton(i, confirmed) ==
    /\ HistoryView
    /\ i \in DOMAIN historyItems
    /\ handleDelete(historyItems[i].id, confirmed)

\* the deleteDoc call k resolves or rejects: the rest of handleDelete, with
\* the historyItems of the render in which the button was clicked
DeleteSettles(k, outcome) ==
    /\ k \in DOMAIN deletes
    /\ deletes[k].state = "pending"
    /\ deletes' = [deletes EXCEPT ![k].state = outcome]
    /\ IF outcome = "ok"
       THEN /\ store' = {d \in store : d.id # deletes[k].itemId}
            /\ historyItems' = FilterOut(deletes[k].items, deletes[k].itemId)
            /\ UNCHANGED alerts
       ELSE /\ alerts' = alerts + 1
            /\ UNCHANGED <<store, historyItems>>
    /\ UNCHANGED <<prompt, style, loading, error, image, enhancedPrompt,
                   mermaidCode, isSaved, manifests, activeTab, saving, isModalOpen,
                   archivistName, clock, saves, timers, fetchVars, serverVars>>

\* the data object of handleSaveToCloud
SaveData ==
    [prompt |-> prompt, image |-> image, enhancedPrompt |-> enhancedPrompt,
     mermaidCode |-> mermaidCode, style |-> style, archivist |-> archivistName]

\* mutant: the archivist name is tested without trim
handleSaveToCloud_NoTrim ==
    IF (~Present(image) /\ ~Present(mermaidCode)) \/ isSaved
    THEN UNCHANGED vars
    ELSE IF archivistName = <<>>
    THEN /\ isModalOpen' = TRUE
         /\ UNCHANGED <<prompt, style, loading, error, image, enhancedPrompt,
                        mermaidCode, isSaved, manifests, activeTab, saving,
                        archivistName, historyItems, store, clock, saves, deletes,
                        alerts, timers, fetchVars, serverVars>>
    ELSE /\ Len(saves) < MaxSaves
         /\ saving' = TRUE
         /\ saves' = Append(saves, [data |-> SaveData, state |-> "pending"])
         /\ UNCHANGED <<prompt, style, loading, error, image, enhancedPrompt,
                        mermaidCode, isSaved, manifests, activeTab, isModalOpen,
                        archivistName, historyItems, store, clock, deletes,
                        alerts, timers, fetchVars, serverVars>>

\* handleSaveToCloud up to its await
handleSaveToCloud ==
    IF (~Present(image) /\ ~Present(mermaidCode)) \/ isSaved
    THEN UNCHANGED vars
    ELSE IF Trim(archivistName) = <<>>
    THEN /\ isModalOpen' = TRUE
         /\ UNCHANGED <<prompt, style, loading, error, image, enhancedPrompt,
                        mermaidCode, isSaved, manifests, activeTab, saving,
                        archivistName, historyItems, store, clock, saves, deletes,
                        alerts, timers, fetchVars, serverVars>>
    ELSE /\ Len(saves) < MaxSaves
         /\ saving' = TRUE
         /\ saves' = Append(saves, [data |-> SaveData, state |-> "pending"])
         /\ UNCHANGED <<prompt, style, loading, error, image, enhancedPrompt,
                        mermaidCode, isSaved, manifests, activeTab, isModalOpen,
                        archivistName, historyItems, store, clock, deletes,
                        alerts, timers, fetchVars, serverVars>>

\* the archive button: shown with a result, disabled={saving || isSaved}
SaveButton ==
    /\ ManifestView
    /\ (Present(image) \/ Present(mermaidCode)) /\ ~loading
    /\ ~(saving \/ isSaved)
    /\ handleSaveToCloud

\* the modal's 'Authorize Vault' button and the Enter key of its input
ModalSubmit == isModalOpen /\ handleSaveToCloud

\* onChange of the modal's input
setArchivistName(n) ==
    /\ isModalOpen
    /\ archivistName' = n
    /\ UNCHANGED <<prompt, style, loading, error, image, enhancedPrompt,
                   mermaidCode, isSaved, manifests, activeTab, saving, isModalOpen,
                   historyItems, store, clock, saves, deletes, alerts, timers,
                   fetchVars, serverVars>>

\* the modal's Cancel button and its backdrop
CloseModal ==
    /\ isModalOpen
    /\ isModalOpen' = FALSE
    /\ UNCHANGED <<prompt, style, loading, error, image, enhancedPrompt,
                   mermaidCode, isSaved, manifests, activeTab, saving,
                   archivistName, historyItems, store, clock, saves, deletes,
                   alerts, timers, fetchVars, serverVars>>

\* the document addDoc creates from data
NewDoc(data) ==
    [id |-> clock, createdAt |-> clock, prompt |-> data.prompt,
     image |-> data.image, enhancedPrompt |-> data.enhancedPrompt,
     mermaidCode |-> data.mermaidCode, style |-> data.style,
     archivist |-> data.archivist]

\* mutant: a failed addDoc is handled like a successful one, without alert
SaveSettles_FailureAsSuccess(k, outcome) ==
    /\ k \in DOMAIN saves
    /\ saves[k].state = "pending"
    /\ saves' = [saves EXCEPT ![k].state = outcome]
    /\ saving' = FALSE
    /\ store' = IF outcome = "ok" THEN store \cup {NewDoc(saves[k].data)} ELSE store
    /\ clock' = IF outcome = "ok" THEN clock + 1 ELSE clock
    /\ isSaved' = TRUE
    /\ isModalOpen' = FALSE
    /\ timers' = timers + 1
    /\ UNCHANGED <<prompt, style, loading, error, image, enhancedPrompt,
                   mermaidCode, manifests, activeTab, archivistName, historyItems,
                   deletes, alerts, fetchVars, serverVars>>

\* the addDoc call k resolves or rejects: the rest of handleSaveToCloud
SaveSettles(k, outcome) ==
    /\ k \in DOMAIN saves
    /\ saves[k].state = "pending"
    /\ saves' = [saves EXCEPT ![k].state = outcome]
    /\ saving' = FALSE
    /\ IF outcome = "ok"
       THEN /\ store' = store \cup {NewDoc(saves[k].data)}
            /\ clock' = clock + 1
            /\ isSaved' = TRUE
            /\ isModalOpen' = FALSE
            /\ timers' = timers + 1
            /\ UNCHANGED alerts
       ELSE /\ alerts' = alerts + 1
            /\ UNCHANGED <<store, clock, isSaved, isModalOpen, timers>>
    /\ UNCHANGED <<prompt, style, loading, error, image, enhancedPrompt,
                   mermaidCode, manifests, activeTab, archivistName, historyItems,
                   deletes, fetchVars, serverVars>>

\* a setTimeout(() => setIsSaved(false), 3000) fires
TimerFires ==
    /\ timers > 0
    /\ timers' = timers - 1
    /\ isSaved' = FALSE
    /\ UNCHANGED <<prompt, style, loading, error, image, enhancedPrompt,
                   mermaidCode, manifests, activeTab, saving, isModalOpen,
                   archivistName, historyItems, store, clock, saves, deletes,
                   alerts, fetchVars, serverVars>>

\* ------------------------------------------------------- specifications
\* the "visuals" collection before anything was archived
StoreEmpty == store = {} /\ clock = 1

Init == ServerInit /\ ClientInit /\ StoreEmpty

\* the gateway under arbitrary requests
Next ==
    \/ \E s \in Slots, c \in Callers, ep \in Endpoints, body \in Bodies :
          hits[c] < MaxArrivals /\ Arrive(s, c, ep, body)
    \/ \E c \in Callers : WindowExpires(c)
    \/ \E s \in Slots, o \in EnhanceOutcomes : EnhanceReturns(s, o)
    \/ \E s \in Slots, o \in DiagramOutcomes : DiagramReturns(s, o)
    \/ \E s \in Slots, o \in ImageOutcomes : ImageReturns(s, o)

Spec == Init /\ [][Next]_vars

\* POST /generate-diagram under every answer the text model can give
DiagramBodies == {[prompt |-> Str(<<"p">>), style |-> Undefined]}

NextDiagram ==
    \/ \E s \in Slots, body \in DiagramBodies :
          hits["c1"] < MaxArrivals /\ Arrive(s, "c1", "POST /generate-diagram", body)
    \/ WindowExpires("c1")
    \/ \E s \in Slots, t \in PieceTexts(MaxPieces) : DiagramReturns(s, TextAnswer(t))

SpecDiagram == Init /\ [][NextDiagram]_vars

\* the limiter under a caller that exceeds max while another one does not
LimiterBodies == {[prompt |-> Undefined, style |-> Undefined],
                  [prompt |-> Str(<<"p">>), style |-> Str(<<"anime">>)]}

InitLimiter == Init /\ ~Falsy(HUGGINGFACE_API_KEY)

NextLimiter ==
    \/ \E ep \in Endpoints, body \in LimiterBodies :
          hits["c1"] < max + MaxExcess /\ Arrive(1, "c1", ep, body)
    \/ \E ep \in Endpoints, body \in LimiterBodies :
          hits["c2"] < MaxArrivals /\ Arrive(1, "c2", ep, body)
    \/ \E c \in Callers : WindowExpires(c)
    \/ EnhanceReturns(1, TextFailure)
    \/ DiagramReturns(1, TextFailure)
    \/ ImageReturns(1, FetchResponse(200, TRUE, "jpeg", <<>>))

SpecLimiter == InitLimiter /\ [][NextLimiter]_vars

\* the client under arbitrary user input and call outcomes
NextClient ==
    \/ \E p \in ClientPrompts : setPrompt(p)
    \/ \E st \in ClientStyles : setStyle(st)
    \/ ManifestButton
    \/ \E a \in 1..MaxActions, outcome \in Settlements : GenerateSettles(a, outcome)
    \/ \E a \in 1..MaxActions, outcome \in Settlements : DiagramSettles(a, outcome)

SpecClient == Init /\ [][NextClient]_vars

\* records archived in earlier sessions: record k stems from manifest action
\* -k of its session; ids and creation times run in opposite directions
Archived(k) ==
    [id |-> k, createdAt |-> MaxDocs + 1 - k, prompt |-> <<"p">>,
     image |-> ImageOf(0 - k), enhancedPrompt |-> EnhancedPromptOf(0 - k),
     mermaidCode |-> MermaidCodeOf(0 - k), style |-> STYLES[2],
     archivist |-> <<"ann">>]

StoreArchived == store = {Archived(k) : k \in 1..MaxDocs} /\ clock = MaxDocs + 1

\* the history tab over a store that holds MaxDocs records
InitHistory == ServerInit /\ ClientInit /\ StoreArchived

NextHistory ==
    \/ \E tab \in {"manifest", "history"} : TabClick(tab)
    \/ \E outcome \in Settlements : FetchSettles(outcome)
    \/ \E i \in 1..MaxDocs : Restore(i)
    \/ \E i \in 1..MaxDocs : DeleteButton(i, TRUE)
    \/ \E k \in 1..MaxDeletes, outcome \in Settlements : DeleteSettles(k, outcome)

SpecHistory == InitHistory /\ [][NextHistory]_vars

\* the history tab, restoring a record and archiving or deleting it
NextArchive ==
    \/ \E tab \in {"manifest", "history"} : TabClick(tab)
    \/ \E outcome \in Settlements : FetchSettles(outcome)
    \/ \E i \in 1..MaxDocs : Restore(i)
    \/ \E i \in 1..MaxDocs, confirmed \in BOOLEAN : DeleteButton(i, confirmed)
    \/ \E k \in 1..MaxDeletes, outcome \in Settlements : DeleteSettles(k, outcome)
    \/ SaveButton
    \/ ModalSubmit
    \/ \E n \in ArchivistNames : setArchivistName(n)
    \/ CloseModal
    \/ \E k \in 1..MaxSaves, outcome \in Settlements : SaveSettles(k, outcome)
    \/ TimerFires

\* a store that holds one record
StoreOne == store = {Archived(1)} /\ clock = MaxDocs + 1

InitArchive == ServerInit /\ ClientInit /\ StoreOne

SpecArchive == InitArchive /\ [][NextArchive]_vars

\* generating and archiving in one session
VaultPrompts == {<<"p">>, <<"q">>}

NextVault ==
    \/ \E p \in VaultPrompts : ManifestView /\ setPrompt(p)
    \/ \E st \in ClientStyles : ManifestView /\ setStyle(st)
    \/ ManifestView /\ Len(manifests) < MaxVaultActions /\ ManifestButton
    \/ \E a \in 1..MaxActions, outcome \in Settlements : GenerateSettles(a, outcome)
    \/ \E a \in 1..MaxActions, outcome \in Settlements : DiagramSettles(a, outcome)
    \/ SaveButton
    \/ ModalSubmit
    \/ \E n \in ArchivistNames : setArchivistName(n)
    \/ CloseModal
    \/ \E k \in 1..MaxSaves, outcome \in Settlements : SaveSettles(k, outcome)
    \/ TimerFires

SpecVault == Init /\ [][NextVault]_vars

\* generating while browsing and restoring archived records; the user types
\* a prompt that no archived record has
TypedPrompts == {<<"q">>}

NextRestore ==
    \/ \E p \in TypedPrompts : ManifestView /\ setPrompt(p)
    \/ ManifestView /\ ManifestButton
    \/ \E a \in 1..MaxActions, outcome \in Settlements : GenerateSettles(a, outcome)
    \/ \E a \in 1..MaxActions, outcome \in Settlements : DiagramSettles(a, outcome)
    \/ \E tab \in {"manifest", "history"} : TabClick(tab)
    \/ \E outcome \in Settlements : FetchSettles(outcome)
    \/ \E i \in 1..MaxDocs : Restore(i)

SpecRestore == InitHistory /\ [][NextRestore]_vars

\* generating and archiving with one prompt and one name, every call to the
\* server being answered or failing in the end
NextLoading ==
    \/ ManifestView /\ setPrompt(<<"p">>)
    \/ ManifestView /\ ManifestButton
    \/ \E a \in 1..MaxActions, outcome \in Settlements : GenerateSettles(a, outcome)
    \/ \E a \in 1..MaxActions, outcome \in Settlements : DiagramSettles(a, outcome)
    \/ SaveButton
    \/ ModalSubmit
    \/ setArchivistName(<<"ann">>)
    \/ \E k \in 1..MaxSaves, outcome \in Settlements : SaveSettles(k, outcome)
    \/ TimerFires

SpecLoading ==
    /\ Init
    /\ [][NextLoading]_vars
    /\ WF_vars(\E a \in 1..MaxActions, outcome \in Settlements :
                   GenerateSettles(a, outcome))
    /\ WF_vars(\E a \in 1..MaxActions, outcome \in Settlements :
                   DiagramSettles(a, outcome))

\* --------------------------------------------------------------- claims
Posts == {"POST /generate", "POST /generate-diagram"}

\* the request of slot s reached its route (the limiter let it pass)
Routed(s) == reqs[s].pc # "free" /\ reqs[s].hit <= 100

\* missing, empty or whitespace-only
Blank(v) == v.type = "undefined" \/ (v.type = "string" /\ Trim(v.chars) = <<>>)

\* C1: a POST /generate or POST /generate-diagram request whose prompt is
\* missing, empty or only whitespace is answered 400 and causes no call to the
\* text model or to the image model.
C1_BlankPromptRejected ==
    \A s \in Slots :
        (Routed(s) /\ reqs[s].ep \in Posts /\ Blank(reqs[s].body.prompt))
            => /\ reqs[s].pc = "done"
               /\ reqs[s].status = 400
               /\ reqs[s].textCalls = 0
               /\ reqs[s].imageCalls = 0

\* C2: the mermaidCode of a POST /generate-diagram answer neither begins nor
\* ends with a code-fence marker, whatever the text model returned.
C2_NoFenceAtEnds ==
    \A s \in Slots :
        (reqs[s].pc = "done" /\ reqs[s].ep = "POST /generate-diagram"
            /\ reqs[s].status = 200)
            => /\ ~StartsWith(reqs[s].resp.mermaidCode, <<BT, BT, BT>>)
               /\ ~EndsWith(reqs[s].resp.mermaidCode, <<BT, BT, BT>>)

\* the image call of the request in slot s failed: it threw, or it returned a
\* non-success response
ImageCallFailed(s) ==
    /\ reqs[s].pc = "done"
    /\ reqs[s].imageCalls = 1
    /\ \/ reqs[s].imageOutcome.kind = "throw"
       \/ /\ reqs[s].imageOutcome.kind = "response"
          /\ reqs[s].imageOutcome.status \notin 200..299

EnhancementFailed(s) ==
    /\ reqs[s].pc \in {"image", "done"}
    /\ reqs[s].ep = "POST /generate"
    /\ reqs[s].textFailed

\* C4 as stated: after a failed enhancement call the enhancement output is
\* '<prompt>, <style>, high resolution, ultra detailed, cinematic lighting' with
\* the request's own prompt and style, for every style the request carries.
C4_FallbackUsesRequestStyle ==
    \A s \in Slots :
        (EnhancementFailed(s) /\ reqs[s].body.style.type = "string")
            => reqs[s].textOut =
                   reqs[s].body.prompt.chars \o <<",", SP>> \o reqs[s].body.style.chars
                       \o <<", high resolution, ultra detailed, cinematic lighting">>

\* C4 amended: after a failed enhancement call the enhancement output is
\* '<prompt>, <style>, high resolution, ultra detailed, cinematic lighting' with
\* the request's prompt and its style, where a missing or empty style counts
\* as 'realistic'.
C4_FallbackExact ==
    \A s \in Slots :
        EnhancementFailed(s)
            => reqs[s].textOut =
                   reqs[s].body.prompt.chars \o <<",", SP>>
                       \o (IF reqs[s].body.style.type = "string"
                              /\ reqs[s].body.style.chars # <<>>
                           THEN reqs[s].body.style.chars ELSE <<"realistic">>)
                       \o <<", high resolution, ultra detailed, cinematic lighting">>

C4_Witness ==
    \E s \in Slots :
        /\ EnhancementFailed(s)
        /\ reqs[s].textOut = <<"p", ",", SP, "anime",
                               ", high resolution, ultra detailed, cinematic lighting">>

\* C5: after a failed diagram call the answer is exactly the fixed two-node
\* graph, whatever the prompt, and the request is answered as a success.
C5_DiagramFallbackExact ==
    \A s \in Slots :
        (reqs[s].pc # "free" /\ reqs[s].ep = "POST /generate-diagram"
            /\ reqs[s].textFailed)
            => /\ reqs[s].pc = "done"
               /\ reqs[s].status = 200
               /\ reqs[s].resp =
                     [mermaidCode |->
                         <<"graph TD", NL, "A[Error] --> B[Diagram Generation Failed]">>]

C5_Witness ==
    \E s \in Slots :
        /\ reqs[s].ep = "POST /generate-diagram"
        /\ reqs[s].textFailed
        /\ reqs[s].body.prompt = Str(<<"p">>)
        /\ reqs[s].status = 200

\* the status app.post('/generate') owes to an image-call outcome
StatusOwed(o) ==
    IF o.kind = "response" /\ o.status \in 200..299 /\ o.readable THEN 200
    ELSE IF o.kind = "response" /\ o.status \notin 200..299 THEN o.status
    ELSE 500

\* C6: a failure of the text model never fails a request: a routed
\* /generate-diagram request with a prompt is answered 200 with a mermaidCode,
\* and a /generate request whose enhancement failed has issued its image call
\* with the fallback prompt and gets the status the image outcome alone decides.
C6_TextFailureAbsorbed ==
    \A s \in Slots :
        LET r == reqs[s]
        IN  /\ (Routed(s) /\ r.ep = "POST /generate-diagram" /\ r.pc = "done"
                  /\ ~Falsy(r.body.prompt))
               => /\ r.status = 200
                  /\ DOMAIN r.resp = {"mermaidCode"}
            /\ (r.pc # "free" /\ r.ep = "POST /generate" /\ r.textFailed)
               => /\ r.imageCalls = 1
                  /\ r.imageInput = r.textOut
                  /\ r.pc = "done" => r.status = StatusOwed(r.imageOutcome)

C6_Witness ==
    \E s \in Slots :
        /\ reqs[s].ep = "POST /generate"
        /\ reqs[s].textFailed
        /\ reqs[s].pc = "done"
        /\ reqs[s].status = 200

\* C7: a routed POST /generate request with a prompt, handled without an
\* image-model credential, is answered 500 and makes no outbound call.
C7_NoCredentialNoCalls ==
    \A s \in Slots :
        (Routed(s) /\ reqs[s].ep = "POST /generate" /\ ~Falsy(reqs[s].body.prompt)
            /\ Falsy(HUGGINGFACE_API_KEY))
            => /\ reqs[s].pc = "done"
               /\ reqs[s].status = 500
               /\ reqs[s].textCalls = 0
               /\ reqs[s].imageCalls = 0

C7_Witness ==
    \E s \in Slots :
        /\ Routed(s)
        /\ reqs[s].ep = "POST /generate"
        /\ reqs[s].body.prompt = Str(<<"p">>)
        /\ Falsy(HUGGINGFACE_API_KEY)
        /\ reqs[s].status = 500

\* C8: the image call of POST /generate is issued only once the enhancement
\* has ended, its input is the enhancement's output, and a success answer
\* pairs that same text with the image the call produced from it.
C8_ImageAfterEnhancement ==
    \A s \in Slots :
        LET r == reqs[s]
        IN  (r.pc # "free" /\ r.ep = "POST /generate")
            => /\ r.pc = "text" => r.imageCalls = 0
               /\ r.imageCalls > 0 =>
                     /\ r.textCalls = 1
                     /\ r.imageInput = r.textOut
                     /\ r.textFailed \/ r.textOut = <<"vivid", SP, "p">>
               /\ (r.pc = "done" /\ r.status = 200) =>
                     /\ r.resp.enhancedPrompt = r.textOut
                     /\ r.image = <<"jpeg", "generated from", r.textOut>>
                     /\ r.resp.image =
                            <<"data:image/jpeg;base64,", <<"base64", r.image>> >>

C8_Witness ==
    \E s \in Slots :
        /\ reqs[s].ep = "POST /generate"
        /\ reqs[s].pc = "done"
        /\ reqs[s].status = 200
        /\ ~reqs[s].textFailed
        /\ reqs[s].resp.enhancedPrompt = <<"vivid", SP, "p">>

\* C9: in one window at most 100 requests of a caller reach a route, counted
\* over all endpoints; each further request of that caller gets the JSON error
\* body and reaches no handler and no upstream call; a caller below the limit
\* is not refused; the count starts again with the next window.
C9_RateLimit ==
    /\ \A c \in Callers :
          /\ served[c] <= 100
          /\ served[c] = IF hits[c] <= 100 THEN hits[c] ELSE 100
    /\ \A s \in Slots :
          LET r == reqs[s]
          IN  r.pc # "free" =>
                /\ r.hit > 100 =>
                      /\ r.pc = "done"
                      /\ r.status = 429
                      /\ r.resp = [error |->
                            "Too many requests from this IP, please try again after 15 minutes"]
                      /\ r.textCalls = 0 /\ r.imageCalls = 0
                /\ r.hit <= 100 => ~(r.status = 429 /\ DOMAIN r.resp = {"error"}
                                       /\ r.imageCalls = 0)

C9_Witness ==
    /\ hits["c1"] = 101
    /\ served["c1"] = 100
    /\ reqs[1].caller = "c1"
    /\ reqs[1].ep = "POST /generate"
    /\ reqs[1].hit = 101
    /\ reqs[1].status = 429
    /\ served["c2"] = 1

\* a call of m has answered while the other call of m is still pending
HalfDone(m) ==
    \/ m.generate = "ok" /\ m.diagram = "pending"
    \/ m.diagram = "ok" /\ m.generate = "pending"

\* the display state holds a result of manifest action a
Shows(a) ==
    \/ image = [kind |-> "image", action |-> a]
    \/ enhancedPrompt = [kind |-> "enhancedPrompt", action |-> a]
    \/ mermaidCode = [kind |-> "mermaidCode", action |-> a]

\* C10: both calls of a manifest action are out from its start, and the
\* display state holds results of an action only once both of its calls have
\* answered, whichever came first: then all three fields together.
C10_JoinBeforeDisplay ==
    \A a \in DOMAIN manifests :
        /\ manifests[a].generate # "unsent" /\ manifests[a].diagram # "unsent"
        /\ HalfDone(manifests[a]) => ~Shows(a)
        /\ Shows(a) => /\ manifests[a].generate = "ok"
                       /\ manifests[a].diagram = "ok"
        /\ (loading /\ a = Len(manifests)) => ~Shows(a)

C10_Witness ==
    \E a, b \in DOMAIN manifests :
        /\ manifests[a].order = <<"generate", "diagram">>
        /\ manifests[a].pc = "done" /\ PromiseAllFulfilled(manifests[a])
        /\ manifests[b].order = <<"diagram", "generate">>
        /\ image = ImageOf(b) /\ enhancedPrompt = EnhancedPromptOf(b)
        /\ mermaidCode = MermaidCodeOf(b)

\* the step in which the Promise.all of action a is rejected
RejectionStep(a) ==
    /\ a \in DOMAIN manifests
    /\ manifests[a].pc = "await"
    /\ manifests'[a].pc = "done"
    /\ manifests'[a].generate = "rejected" \/ manifests'[a].diagram = "rejected"

\* C11: when either call of a manifest action rejects, the action is
\* reported with the one message 'Neural manifestation partially failed. Check
\* your connection.', whichever call it was, and image, enhancedPrompt and
\* mermaidCode never take the answer of the call that succeeded.
C11_RejectionCollapses ==
    /\ [](\A a \in DOMAIN manifests :
             (manifests[a].generate = "rejected" \/ manifests[a].diagram = "rejected")
                 => ~Shows(a))
    /\ [][\A a \in 1..MaxActions :
             RejectionStep(a) =>
                 /\ error' = "Neural manifestation partially failed. Check your connection."
                 /\ UNCHANGED <<image, enhancedPrompt, mermaidCode>>]_vars

C11_Witness ==
    \E a \in DOMAIN manifests :
        /\ manifests[a].order = <<"generate", "diagram">>
        /\ manifests[a].generate = "ok"
        /\ manifests[a].diagram = "rejected"
        /\ manifests[a].pc = "done"
        /\ error = "Neural manifestation partially failed. Check your connection."
        /\ image = Null

\* C12: a POST /generate request causes at most one text-model call and at
\* most one image-model call, a POST /generate-diagram request at most one
\* text-model call and no image-model call; a failed call is not repeated.
C12_NoRetry ==
    \A s \in Slots :
        LET r == reqs[s]
        IN  /\ r.textCalls <= 1
            /\ r.imageCalls <= 1
            /\ r.ep = "POST /generate-diagram" => r.imageCalls = 0
            /\ r.ep = "GET /" => r.textCalls = 0 /\ r.imageCalls = 0
            /\ r.textFailed => r.textCalls = 1
            /\ r.imageOutcome.kind # "none" => r.imageCalls = 1 /\ r.pc = "done"

C12_Witness ==
    \E s \in Slots :
        /\ reqs[s].ep = "POST /generate"
        /\ reqs[s].pc = "done"
        /\ reqs[s].textFailed
        /\ reqs[s].imageOutcome.kind = "throw"
        /\ reqs[s].textCalls = 1
        /\ reqs[s].imageCalls = 1

\* C16: POST /generate tests the prompt before the credential: without a
\* prompt the answer is 400 also when no credential is configured, with a
\* prompt and no credential it is 500, and neither rejection is preceded by an
\* upstream call.
C16_PromptBeforeCredential ==
    \A s \in Slots :
        LET r == reqs[s]
            noPrompt == r.body.prompt.type = "undefined" \/ r.body.prompt.chars = <<>>
            noKey == HUGGINGFACE_API_KEY.type = "undefined"
                         \/ HUGGINGFACE_API_KEY.chars = <<>>
        IN  (Routed(s) /\ r.ep = "POST /generate")
            => /\ noPrompt =>
                     /\ r.pc = "done" /\ r.status = 400
                     /\ r.resp = [error |-> "Prompt is required"]
                     /\ r.textCalls = 0 /\ r.imageCalls = 0
               /\ (~noPrompt /\ noKey) =>
                     /\ r.pc = "done" /\ r.status = 500
                     /\ r.resp = [error |-> "HF Key missing"]
                     /\ r.textCalls = 0 /\ r.imageCalls = 0

C16_Witness ==
    \E s \in Slots :
        /\ Routed(s)
        /\ reqs[s].ep = "POST /generate"
        /\ reqs[s].body.prompt = Undefined
        /\ HUGGINGFACE_API_KEY = Undefined
        /\ reqs[s].status = 400

\* C17: with an empty or whitespace-only prompt handleManifest sets the
\* message 'Please enter a concept to manifest.' and nothing else: no request
\* is sent and loading, image, enhancedPrompt, mermaidCode and isSaved stay.
C17_BlankPromptOnlyMessage ==
    [][/\ Trim(prompt) = <<>> => Len(manifests') = Len(manifests)
       /\ (error' = "Please enter a concept to manifest." /\ error' # error)
             => /\ Trim(prompt) = <<>>
                /\ UNCHANGED <<loading, image, enhancedPrompt, mermaidCode, isSaved,
                               manifests, prompt, style>>
       /\ (Trim(prompt) = <<>> /\ ~loading /\ error' # error)
             => error' = "Please enter a concept to manifest."]_vars

C17_Witness ==
    /\ prompt = <<SP>>
    /\ error = "Please enter a concept to manifest."
    /\ manifests # <<>>
    /\ image # Null

\* C13: the listed history is in strictly descending order of creation time,
\* after a fetch and after any deletions that followed it.
C13_HistoryDescending ==
    \A i, j \in DOMAIN historyItems :
        i < j => historyItems[i].createdAt > historyItems[j].createdAt

C13_Witness ==
    /\ Len(historyItems) >= 2
    /\ \E k \in DOMAIN deletes : deletes[k].state = "ok"
    /\ \A k \in DOMAIN deletes :
          \A i \in DOMAIN historyItems : historyItems[i].id # deletes[k].itemId

\* the step in which addDoc call k, or deleteDoc call k, is rejected
SaveFails(k) ==
    k \in DOMAIN saves /\ saves[k].state = "pending" /\ saves'[k].state = "rejected"
DeleteFails(k) ==
    k \in DOMAIN deletes /\ deletes[k].state = "pending"
        /\ deletes'[k].state = "rejected"

C15_ExplicitWrites ==
    /\ [](/\ \A k \in DOMAIN saves :
                /\ Trim(saves[k].data.archivist) # <<>>
                /\ saves[k].data.image.kind = "image"
                      \/ saves[k].data.mermaidCode.kind = "mermaidCode"
          /\ \A d \in store :
                \/ d.id <= MaxDocs
                \/ \E k \in DOMAIN saves :
                      /\ saves[k].state = "ok"
                      /\ d.archivist = saves[k].data.archivist
                      /\ d.image = saves[k].data.image
                      /\ d.mermaidCode = saves[k].data.mermaidCode
          /\ Cardinality({d \in store : d.id > MaxDocs})
                <= Cardinality({k \in DOMAIN saves : saves[k].state = "ok"})
          /\ \A k \in DOMAIN deletes : deletes[k].confirmed)
    /\ [][/\ Trim(archivistName) = <<>> => Len(saves') = Len(saves)
          /\ (isModalOpen' /\ ~isModalOpen)
                => Trim(archivistName) = <<>> /\ UNCHANGED <<saves, store, saving>>]_vars

C15_Witness ==
    /\ \E d \in store : d.id > MaxDocs /\ d.archivist = <<"ann">>
    /\ \E k \in DOMAIN deletes : deletes[k].state = "ok"
    /\ archivistName = <<"ann">>

\* C18: the prompt and style of an archived record are the prompt and style
\* that were sent to the server for the image and diagram of the same record.
C18_RecordSelfConsistent ==
    \A d \in store :
        /\ d.image.kind = "image" =>
              /\ d.prompt = manifests[d.image.action].prompt
              /\ d.style = manifests[d.image.action].style
        /\ d.mermaidCode.kind = "mermaidCode" =>
              d.prompt = manifests[d.mermaidCode.action].prompt

\* C19: a record whose delete has succeeded is not in the listed history,
\* also when several deletes were in flight together.
C19_DeletedStaysGone ==
    \A k \in DOMAIN deletes :
        deletes[k].state = "ok" =>
            \A i \in DOMAIN historyItems : historyItems[i].id # deletes[k].itemId

\* C20: a second addDoc for the same image and diagram is issued only when
\* every earlier one for them has failed.
C20_SavedAtMostOnce ==
    \A j, k \in DOMAIN saves :
        (j < k /\ saves[j].data.image = saves[k].data.image
               /\ saves[j].data.mermaidCode = saves[k].data.mermaidCode)
            => saves[j].state = "rejected"

\* the manifest actions between setLoading(true) and the finally block
InFlight == {a \in DOMAIN manifests : manifests[a].pc = "await"}

\* C23: at most one handleManifest invocation is between its setLoading(true)
\* and its finally block, loading is true exactly then, no action starts
\* before the earlier ones have ended, and the display state never holds
\* results of two actions.
C23_OneManifestInFlight ==
    /\ Cardinality(InFlight) <= 1
    /\ loading <=> InFlight # {}
    /\ \A a \in InFlight : a = Len(manifests)
    /\ \A a, b \in DOMAIN manifests : (Shows(a) /\ Shows(b)) => a = b

C23_Witness ==
    /\ Len(manifests) = 2
    /\ manifests[1].pc = "done" /\ PromiseAllFulfilled(manifests[1])
    /\ manifests[2].pc = "await" /\ HalfDone(manifests[2])
    /\ loading
    /\ enhancedPrompt = EnhancedPromptOf(1)

\* the three displayed fields are those of manifest action a (a > 0) or of
\* the record archived from action a of an earlier session (a < 0)
DisplayFrom(a) ==
    /\ image = ImageOf(a)
    /\ enhancedPrompt = EnhancedPromptOf(a)
    /\ mermaidCode = MermaidCodeOf(a)

\* C21: whenever image or mermaidCode is non-empty, image, enhancedPrompt and
\* mermaidCode are those of one fulfilled manifest action or of one archived
\* record, also when a record is restored while a manifest action is in
\* flight.
C21_DisplayFromOneSource ==
    (Present(image) \/ Present(mermaidCode)) =>
        \/ \E a \in DOMAIN manifests :
              /\ DisplayFrom(a)
              /\ manifests[a].pc = "done" /\ PromiseAllFulfilled(manifests[a])
        \/ \E k \in 1..MaxDocs : DisplayFrom(0 - k) /\ Archived(k) \in store

\* a record (prompt "p") was restored while action 1 (prompt "q") was in
\* flight, and the action then succeeded
C21_Witness ==
    /\ Len(manifests) = 1
    /\ manifests[1].prompt = <<"q">> /\ prompt = <<"p">>
    /\ manifests[1].pc = "done"
    /\ DisplayFrom(1)
    /\ ~loading

\* manifest action a has passed its finally block
Ended(a) == a \in DOMAIN manifests /\ manifests[a].pc = "done"

\* C22: every manifest action in flight ends, whether its calls succeed or
\* fail, when every call is answered or fails in the end; loading is true
\* only while an action is in flight, and the step that ends an action
\* leaves loading and isSaved false.
C22_LoadingEnds ==
    /\ \A a \in 1..MaxActions : (a \in InFlight) ~> Ended(a)
    /\ loading ~> ~loading
    /\ [](loading => InFlight # {})
    /\ [][\A a \in InFlight : Ended(a)' => ~loading' /\ ~isSaved']_vars

\* the second action failed and its finally block reset isSaved, which the
\* archiving of the first result had set and whose timer has not fired yet
C22_Witness ==
    /\ Len(manifests) = 2
    /\ Ended(2) /\ PromiseAllRejected(manifests[2])
    /\ ~loading /\ ~isSaved
    /\ timers = 1
    /\ Cardinality({k \in DOMAIN saves : saves[k].state = "ok"}) = 1

====
